---- MODULE Spec2Model ----
(***************************************************************************)
(* Model of the MySQL metadata driver of the titan file system             *)
(* (src/database/mysql/mysql.go).  The five tables of Setup are the state; *)
(* every Driver method that runs a transaction is an action.  The body of  *)
(* each transaction is a pure operator from the store before to the store  *)
(* after, so that the same body serves the one-transaction-at-a-time       *)
(* specification and the concurrent one.                                   *)
(*                                                                         *)
(* Abstractions: uid, gid, target and the four timestamps of an inode are  *)
(* left out (no statement of the driver reads them back into a decision);  *)
(* mode is kept as what Mode.IsDir() sees.  A rolled back transaction      *)
(* leaves the store as it was.                                             *)
(***************************************************************************)
EXTENDS Integers, Sequences, FiniteSets, TLC

\* ---------------------------------------------------------------- bounds
MaxChunkId == 3      \* highest chunk id AUTO_INCREMENT may hand out
MaxSize    == 3      \* highest inode size: writes and resizes end at or before it
MaxWorkers == 2      \* highest number of workers CleanOrphanChunks is called with

InodeIds == {1, 2, 3}   \* the inode ids AUTO_INCREMENT may hand out
Names    == {"a", "b"}
Keys     == {"a", "b"}
ObjOffs  == {0}
Attrs    == {"k"}
Values   == {"v", "w"}
Modes    == {"dir", "file"}
Sizes    == 0 .. MaxSize

\* SQL NULL of the nullable chunk columns
NULL == -1
\* a nil pointer argument of Touch: no new size, no new mode
Nil == -2
NilMode == "nil"
\* the root inode inserted by Setup
RootID == 1

VARIABLES
    inodes,     \* table inodes: id -> [mode, size, refcount]
    entries,    \* table entries: set of [parent, name, inode]
    chunks,     \* table chunks: set of rows
    xattr,      \* table xattr: set of [inode, key, value]
    stats,      \* table stats: the single row [inodes, size]
    nextInode,  \* AUTO_INCREMENT of inodes.id
    nextChunk,  \* AUTO_INCREMENT of chunks.id
    now,        \* UTC_TIMESTAMP()
    removed,    \* blobs handed to Storage.Remove
    txs,        \* open transactions of the concurrent specification
    db0,        \* the store when the concurrent transactions were issued
    last        \* the last call that changed the store

vars == <<inodes, entries, chunks, xattr, stats, nextInode, nextChunk, now,
          removed, txs, db0, last>>

\* the store as one value
DB == [inodes |-> inodes, entries |-> entries, chunks |-> chunks,
       xattr |-> xattr, stats |-> stats,
       nextInode |-> nextInode, nextChunk |-> nextChunk]

Max(a, b) == IF a > b THEN a ELSE b

Ok(db)        == [db |-> db, err |-> "OK"]
Fail(db, err) == [db |-> db, err |-> err]

\* treatError: the error a store error is returned as; a unique violation
\* is EEXIST, any other store error is passed on
treatError(e) == IF e = "DUPKEY" THEN "EEXIST" ELSE "ERR"

\* ---------------------------------------------------------------- Setup
SetupDB ==
    [inodes    |-> (RootID :> [mode |-> "dir", size |-> 0, refcount |-> 1]),
     entries   |-> {},
     chunks    |-> {},
     xattr     |-> {},
     stats     |-> [inodes |-> 1, size |-> 0],
     nextInode |-> RootID + 1,
     nextChunk |-> 1]

\* ---------------------------------------------------------------- helpers
HasInode(db, id) == id \in DOMAIN db.inodes

\* getInode: the row of inodes with this id, read without a lock
getInode(db, id) == [id |-> id, mode |-> db.inodes[id].mode,
                     size |-> db.inodes[id].size,
                     refcount |-> db.inodes[id].refcount]

SumSizes(inds) ==
    LET RECURSIVE Sum(_)
        Sum(S) == IF S = {} THEN 0
                  ELSE LET x == CHOOSE y \in S : TRUE
                       IN inds[x].size + Sum(S \ {x})
    IN Sum(DOMAIN inds)

\* a chunk row as INSERT INTO chunks(...) writes it: orphandate defaults to NULL
ChunkRow(id, inode, storage, key, objectoffset, inodeoffset, size) ==
    [id |-> id, inode |-> inode, storage |-> storage, key |-> key,
     objectoffset |-> objectoffset, inodeoffset |-> inodeoffset,
     size |-> size, orphandate |-> NULL]

\* a slip: the zero chunk placed at the start of the file
ZeroRowAtStart(id, inode, inodeoffset, size) ==
    ChunkRow(id, inode, "zero", "", 0, 0, size)

ZeroRow(id, inode, inodeoffset, size) ==
    ChunkRow(id, inode, "zero", "", 0, inodeoffset, size)

\* a slip: the UPDATE without orphandate = UTC_TIMESTAMP()
OrphanedUndated(c, t) ==
    [c EXCEPT !.inode = NULL, !.objectoffset = NULL, !.inodeoffset = NULL,
              !.size = NULL]

\* UPDATE chunks SET inode = NULL, objectoffset = NULL, inodeoffset = NULL,
\*                   size = NULL, orphandate = UTC_TIMESTAMP()
Orphaned(c, t) ==
    [c EXCEPT !.inode = NULL, !.objectoffset = NULL, !.inodeoffset = NULL,
              !.size = NULL, !.orphandate = t]

OrphanWhere(cs, sel, t) ==
    {IF c \in sel THEN Orphaned(c, t) ELSE c : c \in cs}

\* the rows of a set in the order the index returns them (by id)
RECURSIVE ById(_)
ById(S) ==
    IF S = {} THEN <<>>
    ELSE LET m == CHOOSE c \in S : \A d \in S : c.id <= d.id
         IN <<m>> \o ById(S \ {m})

\* ---------------------------------------------------------------- Create
\* a slip: the hard link that leaves the refcount alone
LinkRefcountKept(refcount, needsRefcountChange) == refcount

\* UPDATE inodes SET refcount = refcount + 1, run if needsRefcountChange
LinkRefcount(refcount, needsRefcountChange) ==
    IF needsRefcountChange THEN refcount + 1 ELSE refcount

\* entry.ID = 0 asks for a new inode, any other id for a hard link
CreateTx(db, parent, name, id, mode) ==
    IF ~HasInode(db, parent) THEN Fail(db, "ERR")
    ELSE IF getInode(db, parent).mode # "dir" THEN Fail(db, "ENOTDIR")
    ELSE
      LET needsRefcountChange == (id # 0)
          eid == IF id = 0 THEN db.nextInode ELSE id
          db1 == IF id = 0
                 THEN [db EXCEPT
                         !.stats.inodes = @ + 1,
                         !.inodes = @ @@ (eid :> [mode |-> mode, size |-> 0,
                                                  refcount |-> 1]),
                         !.nextInode = @ + 1]
                 ELSE db
      IN IF ~HasInode(db1, eid) THEN Fail(db, "ERR")
         \* INSERT INTO entries: PRIMARY KEY (parent, name)
         ELSE IF \E e \in db1.entries : e.parent = parent /\ e.name = name
              THEN Fail(db, treatError("DUPKEY"))
         ELSE Ok([db1 EXCEPT
                    !.entries = @ \cup {[parent |-> parent, name |-> name,
                                         inode |-> eid]},
                    !.inodes[eid].refcount =
                        LinkRefcount(@, needsRefcountChange)])

\* ---------------------------------------------------------------- Forget
\* DELETE FROM inodes is refused while a row of entries references the inode
\* (FOREIGN KEY (parent), FOREIGN KEY (inode) of the entries table)
Referenced(db, ids) ==
    \E e \in db.entries : e.parent \in ids \/ e.inode \in ids

\* a slip: the UPDATE of stats without size = size - ?
ForgetStatsSizeKept(st, in) == [inodes |-> st.inodes - 1, size |-> st.size]

\* UPDATE stats SET size = size - ?, inodes = inodes - 1
ForgetStats(st, in) == [inodes |-> st.inodes - 1, size |-> st.size - in.size]

ForgetTx(db, id, t) ==
    IF ~HasInode(db, id) THEN Fail(db, "ERR")
    ELSE
      LET in == getInode(db, id)
      IN IF in.refcount # 0 THEN Ok(db)
         ELSE IF Referenced(db, {id}) THEN Fail(db, "ERR")
         ELSE IF db.stats.size - in.size < 0 \/ db.stats.inodes - 1 < 0
              THEN Fail(db, "ERR")
         ELSE Ok([db EXCEPT
                    !.chunks = OrphanWhere(@, {c \in @ : c.inode = id}, t),
                    !.xattr  = {x \in @ : x.inode # id},
                    !.inodes = [j \in (DOMAIN @) \ {id} |-> @[j]],
                    !.stats  = ForgetStats(@, in)])

\* ---------------------------------------------------------------- CleanOrphanInodes
CleanOrphanInodesTx(db, t) ==
    LET dead == {j \in DOMAIN db.inodes : db.inodes[j].refcount = 0}
        kept == [j \in (DOMAIN db.inodes) \ dead |-> db.inodes[j]]
    IN IF Referenced(db, dead) THEN Fail(db, "ERR")
       \* SUM(size) of no row is NULL, and stats.size is NOT NULL
       ELSE IF DOMAIN kept = {} THEN Fail(db, "ERR")
       ELSE Ok([db EXCEPT
                  !.chunks = OrphanWhere(@, {c \in @ : c.inode \in dead}, t),
                  !.xattr  = {x \in @ : x.inode \notin dead},
                  !.inodes = kept,
                  !.stats  = [inodes |-> Cardinality(DOMAIN kept),
                              size   |-> SumSizes(kept)]])

\* ---------------------------------------------------------------- CleanOrphanChunks
\* the rows of SELECT ... WHERE inode IS NULL AND orphandate < threshold
Expired(cs, threshold) ==
    {c \in cs : c.inode = NULL /\ c.orphandate # NULL /\ c.orphandate < threshold}

\* ---------------------------------------------------------------- Unlink
\* a slip: unlink without the count of the children
ChildrenIgnored(db, inode) == 0

\* (SELECT count(*) FROM entries ce WHERE ce.parent = pe.inode)
Children(db, inode) == Cardinality({ce \in db.entries : ce.parent = inode})

\* the store and the status at the point where unlink returns
unlink(db, parent, name) ==
    LET rows == {e \in db.entries : e.parent = parent /\ e.name = name}
    IN IF rows = {} THEN Fail(db, "ERR")
       ELSE
         LET pe == CHOOSE e \in rows : TRUE
             children == Children(db, pe.inode)
             db1 == [db EXCEPT !.entries = @ \ rows]
         IN IF children > 0 THEN Fail(db, "ENOTEMPTY")
            \* refcount is INT UNSIGNED
            ELSE IF HasInode(db1, pe.inode) /\ db1.inodes[pe.inode].refcount = 0
                 THEN Fail(db1, "ERR")
            ELSE Ok([db1 EXCEPT !.inodes =
                       [j \in DOMAIN @ |->
                          IF j = pe.inode
                          THEN [@[j] EXCEPT !.refcount = @ - 1] ELSE @[j]]])

UnlinkTx(db, parent, name) ==
    LET r == unlink(db, parent, name)
    IN IF r.err # "OK" THEN Fail(db, r.err) ELSE r

\* ---------------------------------------------------------------- Rename
MovedNameKept(src, newParent, newName) ==
    {[e EXCEPT !.parent = newParent] : e \in src}

\* UPDATE entries SET parent = ?, name = ?
Moved(src, newParent, newName) ==
    {[e EXCEPT !.parent = newParent, !.name = newName] : e \in src}

RollbackSkipped(db, r) == r

\* tx.Rollback(): the store is as it was when the transaction began
Rollback(db, r) == Fail(db, r.err)

RenameTx(db, oldParent, oldName, newParent, newName) ==
    LET db1 == unlink(db, newParent, newName).db   \* the status is dropped
        src == {e \in db1.entries : e.parent = oldParent /\ e.name = oldName}
        moved == Moved(src, newParent, newName)
        same == (oldParent = newParent /\ oldName = newName)
        r == IF src # {} /\ ~same /\
                (\E e \in db1.entries : e.parent = newParent /\ e.name = newName)
             THEN Fail(db1, treatError("DUPKEY"))   \* PRIMARY KEY (parent, name)
             ELSE IF src # {} /\ ~same /\ ~HasInode(db1, newParent)
             THEN Fail(db1, "ERR")                  \* FOREIGN KEY (parent)
             ELSE IF src = {} \/ same
             THEN Fail(db1, "ENOENT")               \* rowsAffected == 0
             ELSE Ok([db1 EXCEPT !.entries = (@ \ src) \cup moved])
    IN IF r.err # "OK" THEN Rollback(db, r) ELSE r

\* ---------------------------------------------------------------- Touch
\* i is the inode as getInode read it at the start of the transaction; db is
\* the store the remaining statements run against.  size is Nil and mode is
\* NilMode for a nil pointer.
\* rows of SELECT ... WHERE inode = ? AND inodeoffset + size > ? FOR UPDATE
TouchSelect(cs, id, size) ==
    {c \in cs : c.inode = id /\ c.inodeoffset + c.size > size}

\* a slip: no selected chunk is shrunk
TouchNoneUpdated(sel, size) == {}

TouchToBeUpdated(sel, size) == {c \in sel : c.inodeoffset < size}

\* a slip: a chunk that starts at the new size is not orphaned
TouchToBeDeletedStrict(sel, size) == {c \in sel : c.inodeoffset > size}

TouchToBeDeleted(sel, size) == {c \in sel : ~(c.inodeoffset < size)}

TouchTx(db, i, size, mode, t) ==
    LET resize == (size # Nil /\ size # i.size)
        grow   == resize /\ size > i.size
        shrink == resize /\ ~grow
        sel    == IF shrink THEN TouchSelect(db.chunks, i.id, size) ELSE {}
        upd    == TouchToBeUpdated(sel, size)
        del    == TouchToBeDeleted(sel, size)
        cs1    == IF grow
                  THEN db.chunks \cup
                       {ZeroRow(db.nextChunk, i.id, i.size, size - i.size)}
                  ELSE {IF c \in upd
                        THEN [c EXCEPT !.size = size - c.inodeoffset]
                        ELSE c : c \in db.chunks}
        nc1    == IF grow THEN db.nextChunk + 1 ELSE db.nextChunk
        ssize  == IF grow THEN db.stats.size + (size - i.size)
                  ELSE IF shrink THEN db.stats.size - (i.size - size)
                  ELSE db.stats.size
        isize  == IF resize THEN size ELSE i.size
        imode  == IF mode # NilMode THEN mode ELSE i.mode
        cs2    == OrphanWhere(cs1, {c \in cs1 : c.id \in {d.id : d \in del}}, t)
    IN \* FOREIGN KEY (inode) of chunks
       IF grow /\ ~HasInode(db, i.id) THEN Fail(db, "ERR")
       \* stats.size is BIGINT UNSIGNED
       ELSE IF ssize < 0 THEN Fail(db, "ERR")
       ELSE Ok([db EXCEPT
                  !.chunks = cs2,
                  !.nextChunk = nc1,
                  !.stats.size = ssize,
                  !.inodes = [j \in DOMAIN @ |->
                                IF j = i.id
                                THEN [@[j] EXCEPT !.mode = imode, !.size = isize]
                                ELSE @[j]]])

\* ---------------------------------------------------------------- AddChunk
\* the offset the chunk is written at: O_APPEND rewrites it to the inode's size
WriteOffset(i, append, inodeoffset) == IF append THEN i.size ELSE inodeoffset

\* rows of SELECT ... WHERE inode = ? AND inodeoffset < ? AND
\*                          inodeoffset + size > ? FOR UPDATE
AddSelect(cs, inode, off, len) ==
    {c \in cs : c.inode = inode /\ c.inodeoffset < off + len
                                /\ c.inodeoffset + c.size > off}

\* a slip: every chunk the write meets is orphaned
AddToBeDeletedAll(sel, off, len) == sel

\* fully covered by the write: to be orphaned
AddToBeDeleted(sel, off, len) ==
    {c \in sel : c.inodeoffset >= off /\ c.inodeoffset + c.size <= off + len}

\* a slip: the right piece without nc.ObjectOffset += ...
RightPieceUnshifted(c, off, len) ==
    [c EXCEPT !.inodeoffset = off + len,
              !.size        = c.inodeoffset + c.size - (off + len)]

\* strictly containing the write: the right piece nc, a copy of c
RightPiece(c, off, len) ==
    LET inodeOffset == off + len
        inodeEnd    == c.inodeoffset + c.size
    IN [c EXCEPT !.objectoffset = @ + (inodeOffset - c.inodeoffset),
                 !.inodeoffset  = inodeOffset,
                 !.size         = inodeEnd - inodeOffset]

\* a slip: no chunk is split, the part after the write is dropped
SplitsNever(c, off, len) == FALSE

\* c.InodeOffset < chunk.InodeOffset && c.InodeOffset+c.Size > chunk.InodeOffset+chunk.Size
Splits(c, off, len) ==
    c.inodeoffset < off /\ c.inodeoffset + c.size > off + len

\* a slip: a chunk that starts before the write keeps its end
TrimmedLeftKept(c, off, len) ==
    LET newInodeOffset == IF c.inodeoffset < off THEN c.inodeoffset ELSE off + len
        newInodeEnd    == c.inodeoffset + c.size
    IN [c EXCEPT !.objectoffset = @ + (newInodeOffset - c.inodeoffset),
                 !.inodeoffset  = newInodeOffset,
                 !.size         = newInodeEnd - newInodeOffset]

\* the row c as the UPDATE of chunksToBeUpdated leaves it
Trimmed(c, off, len) ==
    LET newInodeOffset == IF c.inodeoffset < off THEN c.inodeoffset ELSE off + len
        newInodeEnd    == IF c.inodeoffset < off THEN off
                          ELSE c.inodeoffset + c.size
    IN [c EXCEPT !.objectoffset = @ + (newInodeOffset - c.inodeoffset),
                 !.inodeoffset  = newInodeOffset,
                 !.size         = newInodeEnd - newInodeOffset]

\* chunksToBeInserted: the written chunk, then the right pieces in row order
ToBeInserted(chunk, off, rows, len) ==
    LET split == SelectSeq(rows, LAMBDA c : Splits(c, off, len))
    IN <<[chunk EXCEPT !.inodeoffset = off]>> \o
       [k \in 1 .. Len(split) |-> RightPiece(split[k], off, len)]

AddChunkTx(db, i, inode, append, chunk, t) ==
    LET off  == WriteOffset(i, append, chunk.inodeoffset)
        len  == chunk.size
        gap  == i.size < off
        cs0  == IF gap
                THEN db.chunks \cup {ZeroRow(db.nextChunk, i.id, i.size, off - i.size)}
                ELSE db.chunks
        nc0  == IF gap THEN db.nextChunk + 1 ELSE db.nextChunk
        sel  == AddSelect(cs0, inode, off, len)
        del  == AddToBeDeleted(sel, off, len)
        upd  == sel \ del
        ins  == ToBeInserted(chunk, off, ById(sel), len)
        cs1  == {IF c \in upd THEN Trimmed(c, off, len) ELSE c : c \in cs0}
        cs2  == cs1 \cup {ChunkRow(nc0 + k - 1, inode, ins[k].storage, ins[k].key,
                                   ins[k].objectoffset, ins[k].inodeoffset,
                                   ins[k].size) : k \in 1 .. Len(ins)}
        newInodeSize == Max(i.size, off + len)
        ssize == IF newInodeSize # i.size
                 THEN db.stats.size + (newInodeSize - i.size)
                 ELSE db.stats.size
        cs3  == OrphanWhere(cs2, {c \in cs2 : c.id \in {d.id : d \in del}}, t)
    IN \* FOREIGN KEY (inode) of chunks
       IF ~HasInode(db, inode) THEN Fail(db, "ERR")
       ELSE Ok([db EXCEPT
                  !.chunks = cs3,
                  !.nextChunk = nc0 + Len(ins),
                  !.stats.size = ssize,
                  !.inodes = [j \in DOMAIN @ |->
                                IF j = i.id
                                THEN [@[j] EXCEPT !.size = newInodeSize]
                                ELSE @[j]]])

\* ---------------------------------------------------------------- xattr
SetXattrTx(db, inode, attr, value, flags) ==
    LET has == \E x \in db.xattr : x.inode = inode /\ x.key = attr
        row == [inode |-> inode, key |-> attr, value |-> value]
        others == {x \in db.xattr : ~(x.inode = inode /\ x.key = attr)}
    IN IF flags = 1
       THEN IF has THEN Fail(db, treatError("DUPKEY"))   \* PRIMARY KEY (inode, key)
            ELSE IF ~HasInode(db, inode) THEN Fail(db, "ERR")
            ELSE Ok([db EXCEPT !.xattr = @ \cup {row}])
       ELSE IF flags = 2
       THEN \* rowsAffected counts the rows the UPDATE changed
            IF row \in db.xattr \/ ~has THEN Fail(db, "ENODATA")
            ELSE Ok([db EXCEPT !.xattr = others \cup {row}])
       ELSE IF ~has /\ ~HasInode(db, inode) THEN Fail(db, "ERR")
            ELSE Ok([db EXCEPT !.xattr = others \cup {row}])

RemoveXattrTx(db, inode, attr) ==
    Ok([db EXCEPT !.xattr = {x \in @ : ~(x.inode = inode /\ x.key = attr)}])

\* GetXattr: the stored value, or ENODATA when no row has the key
GetXattr(db, inode, attr) ==
    LET rows == {x \in db.xattr : x.inode = inode /\ x.key = attr}
    IN IF rows = {} THEN "ENODATA" ELSE (CHOOSE x \in rows : TRUE).value

\* ---------------------------------------------------------------- actions
Tx == {1, 2}
NoTx == [t \in Tx |-> [pc |-> "idle"]]
Idle == \A t \in Tx : txs[t].pc = "idle"

\* the AUTO_INCREMENT counters stay within the bounds of the model
InBounds(db) ==
    /\ DOMAIN db.inodes \subseteq InodeIds
    /\ db.nextChunk <= MaxChunkId + 1
    /\ \A j \in DOMAIN db.inodes : db.inodes[j].size <= MaxSize

\* the store becomes db
Stored(db) ==
    /\ inodes' = db.inodes
    /\ entries' = db.entries
    /\ chunks' = db.chunks
    /\ xattr' = db.xattr
    /\ stats' = db.stats
    /\ nextInode' = db.nextInode
    /\ nextChunk' = db.nextChunk

\* COMMIT (or ROLLBACK, when r.db is the store as it was)
Commit(r) ==
    /\ InBounds(r.db)
    /\ Stored(r.db)

\* the last call that changed the store
Returned(r, op) == IF r.db = DB THEN last ELSE op

Init ==
    /\ inodes = SetupDB.inodes
    /\ entries = SetupDB.entries
    /\ chunks = SetupDB.chunks
    /\ xattr = SetupDB.xattr
    /\ stats = SetupDB.stats
    /\ nextInode = SetupDB.nextInode
    /\ nextChunk = SetupDB.nextChunk
    /\ now = 0
    /\ removed = {}
    /\ txs = NoTx
    /\ db0 = SetupDB
    /\ last = "Setup"

CreateCall(parent, name, id, mode) ==
    LET r == CreateTx(DB, parent, name, id, mode)
    IN /\ Idle
       /\ Commit(r)
       /\ last' = Returned(r, "Create")
       /\ UNCHANGED <<now, removed, txs, db0>>

ForgetCall(id) ==
    LET r == ForgetTx(DB, id, now)
    IN /\ Idle
       /\ Commit(r)
       /\ last' = Returned(r, "Forget")
       /\ UNCHANGED <<now, removed, txs, db0>>

CleanOrphanInodes ==
    LET r == CleanOrphanInodesTx(DB, now)
    IN /\ Idle
       /\ Commit(r)
       /\ last' = Returned(r, "CleanOrphanInodes")
       /\ UNCHANGED <<now, removed, txs, db0>>

\* a run with at least one worker, in which every Storage.Remove returns
CleanOrphanChunksCall(threshold) ==
    LET rows == Expired(chunks, threshold)
    IN /\ Idle
       /\ removed' = removed \cup {<<c.storage, c.key>> : c \in rows}
       /\ chunks' = chunks \ Expired(chunks, threshold)
       /\ last' = IF rows = {} THEN last ELSE "CleanOrphanChunks"
       /\ UNCHANGED <<inodes, entries, xattr, stats, nextInode, nextChunk,
                      now, txs, db0>>

UnlinkCall(parent, name) ==
    LET r == UnlinkTx(DB, parent, name)
    IN /\ Idle
       /\ Commit(r)
       /\ last' = Returned(r, "Unlink")
       /\ UNCHANGED <<now, removed, txs, db0>>

RenameCall(oldParent, oldName, newParent, newName) ==
    LET r == RenameTx(DB, oldParent, oldName, newParent, newName)
    IN /\ Idle
       /\ Commit(r)
       /\ last' = Returned(r, "Rename")
       /\ UNCHANGED <<now, removed, txs, db0>>

TouchCall(id, size, mode) ==
    LET r == IF HasInode(DB, id)
             THEN TouchTx(DB, getInode(DB, id), size, mode, now)
             ELSE Fail(DB, "ERR")
    IN /\ Idle
       /\ Commit(r)
       /\ last' = Returned(r, "Touch")
       /\ UNCHANGED <<now, removed, txs, db0>>

AddChunkCall(inode, append, chunk) ==
    LET r == IF HasInode(DB, inode)
             THEN AddChunkTx(DB, getInode(DB, inode), inode, append, chunk, now)
             ELSE Fail(DB, "ERR")
    IN /\ Idle
       /\ Commit(r)
       /\ last' = Returned(r, "AddChunk")
       /\ UNCHANGED <<now, removed, txs, db0>>

SetXattrCall(inode, attr, value, flags) ==
    LET r == SetXattrTx(DB, inode, attr, value, flags)
    IN /\ Idle
       /\ Commit(r)
       /\ last' = Returned(r, "SetXattr")
       /\ UNCHANGED <<now, removed, txs, db0>>

RemoveXattrCall(inode, attr) ==
    LET r == RemoveXattrTx(DB, inode, attr)
    IN /\ Idle
       /\ Commit(r)
       /\ last' = Returned(r, "RemoveXattr")
       /\ UNCHANGED <<now, removed, txs, db0>>

\* ---------------------------------------------------------------- Spec
\* The life of a file of the root directory, one transaction at a time: it
\* is created, written, resized, unlinked, forgotten and collected.
ChunkArgs(keys) ==
    [storage : {"s3"}, key : keys, objectoffset : ObjOffs,
     inodeoffset : 0 .. MaxSize - 1, size : 1 .. MaxSize]

\* writes to the inodes ids, of blobs with the keys keys
AddChunkOn(ids, keys) ==
    /\ nextChunk <= MaxChunkId
    /\ \E inode \in ids, append \in BOOLEAN, chunk \in ChunkArgs(keys) :
        /\ append => chunk.inodeoffset = 0      \* O_APPEND overwrites the offset
        /\ AddChunkCall(inode, append, chunk)

\* resizes of the inodes ids
TouchSizeOn(ids) == \E id \in ids, size \in Sizes : TouchCall(id, size, NilMode)

Files == {2}

Create == nextInode \in Files /\ CreateCall(RootID, "a", 0, "file")

Unlink == UnlinkCall(RootID, "a")

Forget == \E id \in Files : ForgetCall(id)

CleanOrphanChunks ==
    \E threshold \in {now, now + 1} : CleanOrphanChunksCall(threshold)

Touch == TouchSizeOn(Files)

AddChunk == AddChunkOn(Files, {"a"})

Next ==
    \/ Create
    \/ Unlink
    \/ Forget
    \/ CleanOrphanInodes
    \/ CleanOrphanChunks
    \/ Touch
    \/ AddChunk

Spec == Init /\ [][Next]_vars

\* ---------------------------------------------------------------- SpecChunk
\* The chunk map of one file: inode 2, created as /a, is written and resized
\* with blobs of two keys.
FileDB == CreateTx(SetupDB, RootID, "a", 0, "file").db

InitChunk ==
    /\ inodes = FileDB.inodes
    /\ entries = FileDB.entries
    /\ chunks = FileDB.chunks
    /\ xattr = FileDB.xattr
    /\ stats = FileDB.stats
    /\ nextInode = FileDB.nextInode
    /\ nextChunk = FileDB.nextChunk
    /\ now = 0
    /\ removed = {}
    /\ txs = NoTx
    /\ db0 = FileDB
    /\ last = "Create"

WriteFile == AddChunkOn(Files, Keys)

ResizeFile == TouchSizeOn(Files)

NextChunk ==
    \/ WriteFile
    \/ ResizeFile

SpecChunk == InitChunk /\ [][NextChunk]_vars

\* ---------------------------------------------------------------- SpecDir
\* The directory layer, one transaction at a time: inodes are created,
\* linked, unlinked, renamed, forgotten and collected; files are resized,
\* appended to and given an attribute.
MkNode ==
    \E parent \in InodeIds, name \in Names, mode \in Modes :
        CreateCall(parent, name, 0, mode)

Link ==
    \E parent \in InodeIds, name \in Names, id \in InodeIds :
        CreateCall(parent, name, id, "file")

UnlinkEntry == \E parent \in InodeIds, name \in Names : UnlinkCall(parent, name)

RenameEntry ==
    \E oldParent \in InodeIds, oldName \in Names,
       newParent \in InodeIds, newName \in Names :
        RenameCall(oldParent, oldName, newParent, newName)

ForgetInode == \E id \in InodeIds : ForgetCall(id)

NextDir ==
    \/ MkNode
    \/ Link
    \/ UnlinkEntry
    \/ RenameEntry
    \/ ForgetInode
    \/ CleanOrphanInodes

SpecDir == Init /\ [][NextDir]_vars

\* ---------------------------------------------------------------- SpecInode
\* The inode registry, one transaction at a time: the root and one more
\* inode, a directory or a file, are linked under the name a, renamed,
\* unlinked, forgotten and collected; the second inode is appended to,
\* resized and given an attribute.
Nodes == {RootID} \cup Files

MkNodeA ==
    /\ nextInode \in Files
    /\ \E parent \in Nodes, mode \in Modes : CreateCall(parent, "a", 0, mode)

LinkA == \E parent \in Nodes, id \in Nodes : CreateCall(parent, "a", id, "file")

UnlinkA == \E parent \in Nodes : UnlinkCall(parent, "a")

RenameA ==
    \E oldParent \in Nodes, newParent \in Nodes :
        RenameCall(oldParent, "a", newParent, "a")

AppendByte ==
    /\ nextChunk <= MaxChunkId
    /\ \E inode \in Files :
        AddChunkCall(inode, TRUE, [storage |-> "s3", key |-> "a", objectoffset |-> 0,
                                   inodeoffset |-> 0, size |-> 1])

Resize == TouchSizeOn(Files)

SetAttr == \E inode \in Files : SetXattrCall(inode, "k", "v", 0)

ForgetNode == \E id \in Nodes : ForgetCall(id)

NextInode ==
    \/ MkNodeA
    \/ LinkA
    \/ UnlinkA
    \/ RenameA
    \/ AppendByte
    \/ Resize
    \/ SetAttr
    \/ ForgetNode
    \/ CleanOrphanInodes

SpecInode == Init /\ [][NextInode]_vars

\* ---------------------------------------------------------------- SpecConc
\* Two clients work on one file at once. A transaction reads the inode row
\* when it begins (BeginTx, getInode) and runs its statements up to COMMIT
\* later, on the store as it then is: the schedule in which one transaction
\* commits before the other, begun earlier, executes its first statement.
\* No lock is held across that point, so no statement waits.
TxKey(t) == IF t = 1 THEN "x" ELSE "y"

\* the calls of the two clients: an append of one byte, a write of one byte
\* at an offset, a resize
ConcCalls ==
    [op : {"AddChunk"}, append : {TRUE}, inodeoffset : {0}, size : {1}]
    \cup [op : {"AddChunk"}, append : {FALSE},
          inodeoffset : 0 .. MaxSize - 1, size : {1}]
    \cup [op : {"Touch"}, append : {FALSE}, inodeoffset : {0}, size : Sizes]

\* the statements of a call, with the inode row i the transaction has read
RunTx(db, i, call, key) ==
    IF call.op = "AddChunk"
    THEN AddChunkTx(db, i, i.id, call.append,
                    [storage |-> "s3", key |-> key, objectoffset |-> 0,
                     inodeoffset |-> call.inodeoffset, size |-> call.size],
                    now)
    ELSE TouchTx(db, i, call.size, NilMode, now)

\* BeginTx and getInode of AddChunk and Touch
BeginTx(t) ==
    /\ txs[t].pc = "idle"
    /\ \E inode \in Files, call \in ConcCalls :
        /\ HasInode(DB, inode)
        /\ txs' = [txs EXCEPT ![t] = [pc |-> "begun", call |-> call,
                                      i |-> getInode(DB, inode)]]
    /\ db0' = IF Idle THEN DB ELSE db0
    /\ UNCHANGED <<inodes, entries, chunks, xattr, stats, nextInode,
                   nextChunk, now, removed, last>>

\* the statements after getInode, and COMMIT
CommitTx(t) ==
    /\ txs[t].pc = "begun"
    /\ LET r == RunTx(DB, txs[t].i, txs[t].call, TxKey(t))
       IN /\ r.err = "OK"
          /\ Commit(r)
          /\ last' = Returned(r, txs[t].call.op)
    /\ txs' = [txs EXCEPT ![t].pc = "done"]
    /\ UNCHANGED <<now, removed, db0>>

\* a statement fails: ROLLBACK
RollbackTx(t) ==
    /\ txs[t].pc = "begun"
    /\ RunTx(DB, txs[t].i, txs[t].call, TxKey(t)).err # "OK"
    /\ txs' = [txs EXCEPT ![t].pc = "failed"]
    /\ UNCHANGED <<inodes, entries, chunks, xattr, stats, nextInode,
                   nextChunk, now, removed, db0, last>>

\* what came before the two calls: writes and resizes of the file, leaving
\* chunk ids for the two transactions
WriteBefore == nextChunk < MaxChunkId - 1 /\ AddChunkOn(Files, {"a"})

ResizeBefore == nextChunk < MaxChunkId - 1 /\ TouchSizeOn(Files)

NextConc ==
    \/ WriteBefore
    \/ ResizeBefore
    \/ \E t \in Tx : BeginTx(t)
    \/ \E t \in Tx : CommitTx(t)
    \/ \E t \in Tx : RollbackTx(t)

SpecConc == InitChunk /\ [][NextConc]_vars


\* ---------------------------------------------------------------- SpecXattr
\* The extended attributes of the inodes: inodes are created, unlinked and
\* forgotten, attributes are set with each of the flags and removed.
XattrFlags == {0, 1, 2}

MkFile == \E name \in Names : CreateCall(RootID, name, 0, "file")

UnlinkFile == \E name \in Names : UnlinkCall(RootID, name)

SetAttrOf ==
    \E inode \in InodeIds, attr \in Attrs, value \in Values,
       flags \in XattrFlags :
        SetXattrCall(inode, attr, value, flags)

RemoveAttrOf == \E inode \in InodeIds, attr \in Attrs : RemoveXattrCall(inode, attr)

NextXattr ==
    \/ MkFile
    \/ UnlinkFile
    \/ SetAttrOf
    \/ RemoveAttrOf
    \/ ForgetInode

SpecXattr == Init /\ [][NextXattr]_vars

\* ---------------------------------------------------------------- SpecGC
\* CleanOrphanChunks step by step, while other clients write, resize,
\* unlink and forget the file: the SELECT reads the expired orphans, the
\* workers hand each selected blob to the storage, and after wg.Wait() the
\* DELETE runs its own WHERE on the store as it then is.
GC == 1

\* a transaction of another client, from BeginTx to COMMIT
Run(r, op) ==
    /\ Commit(r)
    /\ last' = Returned(r, op)
    /\ UNCHANGED <<now, removed, txs, db0>>

\* SELECT storage, key FROM chunks WHERE inode IS NULL AND orphandate < ?
GCSelect ==
    /\ txs[GC].pc = "idle"
    /\ \E threshold \in {now, now + 1} :
        txs' = [txs EXCEPT ![GC] = [pc |-> "removing", threshold |-> threshold,
                                    rows |-> Expired(chunks, threshold),
                                    sent |-> {}, deleted |-> {}]]
    /\ UNCHANGED <<inodes, entries, chunks, xattr, stats, nextInode,
                   nextChunk, now, removed, db0, last>>

\* ch <- chunk, and a worker's st.Remove(chunk)
GCRemove ==
    /\ txs[GC].pc = "removing"
    /\ \E c \in txs[GC].rows \ txs[GC].sent :
        /\ removed' = removed \cup {<<c.storage, c.key>>}
        /\ txs' = [txs EXCEPT ![GC].sent = @ \cup {c}]
    /\ UNCHANGED <<inodes, entries, chunks, xattr, stats, nextInode,
                   nextChunk, now, db0, last>>

\* close(ch), wg.Wait(), DELETE FROM chunks WHERE inode IS NULL AND
\* orphandate < ?, COMMIT
GCDelete ==
    /\ txs[GC].pc = "removing"
    /\ txs[GC].sent = txs[GC].rows
    /\ LET gone == Expired(chunks, txs[GC].threshold)
       IN /\ chunks' = chunks \ gone
          /\ txs' = [txs EXCEPT ![GC].pc = "deleted", ![GC].deleted = gone]
          /\ last' = IF gone = {} THEN last ELSE "CleanOrphanChunks"
    /\ UNCHANGED <<inodes, entries, xattr, stats, nextInode, nextChunk,
                   now, removed, db0>>

GCReturn ==
    /\ txs[GC].pc = "deleted"
    /\ txs' = [txs EXCEPT ![GC] = [pc |-> "idle"]]
    /\ UNCHANGED <<inodes, entries, chunks, xattr, stats, nextInode,
                   nextChunk, now, removed, db0, last>>

WriteDuring ==
    /\ nextChunk <= MaxChunkId
    /\ \E inode \in Files, chunk \in ChunkArgs({"a"}) :
        /\ HasInode(DB, inode)
        /\ Run(AddChunkTx(DB, getInode(DB, inode), inode, FALSE, chunk, now),
               "AddChunk")

ResizeDuring ==
    \E id \in Files, size \in Sizes :
        /\ HasInode(DB, id)
        /\ Run(TouchTx(DB, getInode(DB, id), size, NilMode, now), "Touch")

UnlinkDuring == Run(UnlinkTx(DB, RootID, "a"), "Unlink")

ForgetDuring == \E id \in Files : Run(ForgetTx(DB, id, now), "Forget")

NextGC ==
    \/ GCSelect
    \/ GCRemove
    \/ GCDelete
    \/ GCReturn
    \/ WriteDuring
    \/ ResizeDuring
    \/ UnlinkDuring
    \/ ForgetDuring

SpecGC == InitChunk /\ [][NextGC]_vars

\* ---------------------------------------------------------------- SpecEntry
\* The directory tree with modes: inodes are created as directories or
\* files, entries are unlinked and renamed to any parent, modes are changed,
\* inodes are forgotten and collected.
TouchMode == \E id \in InodeIds, mode \in Modes : TouchCall(id, Nil, mode)

NextEntry ==
    \/ MkNode
    \/ UnlinkEntry
    \/ RenameEntry
    \/ TouchMode
    \/ ForgetInode
    \/ CleanOrphanInodes

SpecEntry == Init /\ [][NextEntry]_vars

\* ---------------------------------------------------------------- SpecSize
\* The chunk map of one file under writes of any size, the empty write
\* included, at any offset up to the highest size, and resizes.
AnyChunkArgs ==
    [storage : {"s3"}, key : {"a"}, objectoffset : ObjOffs,
     inodeoffset : 0 .. MaxSize, size : 0 .. MaxSize]

WriteAny ==
    /\ nextChunk <= MaxChunkId
    /\ \E inode \in Files, append \in BOOLEAN, chunk \in AnyChunkArgs :
        /\ append => chunk.inodeoffset = 0      \* O_APPEND overwrites the offset
        /\ AddChunkCall(inode, append, chunk)

NextSize ==
    \/ WriteAny
    \/ ResizeFile

SpecSize == InitChunk /\ [][NextSize]_vars

\* ---------------------------------------------------------------- SpecSparse
\* Two clients write beyond the end of one file at once. The file is first
\* resized; then each transaction reads the inode row when it begins and
\* runs its statements up to COMMIT later, as in SpecConc.
SparseCalls(size) ==
    [op : {"AddChunk"}, append : {FALSE},
     inodeoffset : (size + 1) .. MaxSize, size : {1}]

GrowBefore == TouchSizeOn(Files)

BeginSparse(t) ==
    /\ txs[t].pc = "idle"
    /\ \E inode \in Files :
        /\ HasInode(DB, inode)
        /\ \E call \in SparseCalls(inodes[inode].size) :
            txs' = [txs EXCEPT ![t] = [pc |-> "begun", call |-> call,
                                       i |-> getInode(DB, inode)]]
    /\ db0' = IF Idle THEN DB ELSE db0
    /\ UNCHANGED <<inodes, entries, chunks, xattr, stats, nextInode,
                   nextChunk, now, removed, last>>

CommitSparse(t) ==
    /\ txs[t].pc = "begun"
    /\ LET r == RunTx(DB, txs[t].i, txs[t].call, TxKey(t))
       IN /\ r.err = "OK"
          /\ Stored(r.db)
          /\ last' = Returned(r, txs[t].call.op)
    /\ txs' = [txs EXCEPT ![t].pc = "done"]
    /\ UNCHANGED <<now, removed, db0>>

NextSparse ==
    \/ GrowBefore
    \/ \E t \in Tx : BeginSparse(t)
    \/ \E t \in Tx : CommitSparse(t)

SpecSparse == InitChunk /\ [][NextSparse]_vars

\* ---------------------------------------------------------------- SpecBlob
\* The blobs of one file, one transaction at a time: every write brings a
\* blob under a key no chunk row holds and no Remove was called with, the
\* file is resized, and the orphan chunks are collected.
Unused(key) ==
    /\ \A c \in chunks : c.key # key
    /\ \A b \in removed : b[2] # key

WriteBlob ==
    /\ nextChunk <= MaxChunkId
    /\ \E inode \in Files, append \in BOOLEAN, chunk \in ChunkArgs(Keys) :
        /\ append => chunk.inodeoffset = 0      \* O_APPEND overwrites the offset
        /\ Unused(chunk.key)
        /\ AddChunkCall(inode, append, chunk)

NextBlob ==
    \/ WriteBlob
    \/ ResizeFile
    \/ CleanOrphanChunks

SpecBlob == InitChunk /\ [][NextBlob]_vars

\* ---------------------------------------------------------------- SpecPool
\* The goroutines of CleanOrphanChunks: the caller scans the selected rows
\* and sends each over the unbuffered channel ch, the workers receive from ch
\* and call st.Remove, which returns. Between two collections a file is
\* overwritten, which orphans its chunk.

\* a slip: the loop that starts the workers never entered
SpawnedNone(workers) == {}

\* for i := 0; i < workers; i++ { wg.Add(1); go func() ... }
Spawned(workers) == 1 .. workers

Pool == txs[GC]

PoolFrame == <<inodes, entries, chunks, xattr, stats, nextInode, nextChunk,
               now, removed, db0, last>>

\* BeginTx, the SELECT, make(chan storage.Chunk) and the start of the workers
PoolBegin ==
    /\ Idle
    /\ \E threshold \in {now, now + 1}, workers \in 0 .. MaxWorkers :
        txs' = [txs EXCEPT ![GC] =
                  [pc |-> "next", threshold |-> threshold, workers |-> workers,
                   rows |-> Expired(chunks, threshold),
                   left |-> Expired(chunks, threshold),
                   chunk |-> <<>>, closed |-> FALSE, err |-> "OK",
                   w |-> [k \in Spawned(workers) |-> "recv"],
                   got |-> [k \in Spawned(workers) |-> <<>>]]]
    /\ UNCHANGED PoolFrame

\* rows.Next() is true and rows.Scan gives the chunk
PoolScan ==
    /\ Pool.pc = "next"
    /\ \E c \in Pool.left :
        txs' = [txs EXCEPT ![GC].pc = "send", ![GC].left = @ \ {c},
                           ![GC].chunk = <<c.storage, c.key>>]
    /\ UNCHANGED PoolFrame

\* rows.Next() is true and rows.Scan fails
PoolScanError ==
    /\ Pool.pc = "next"
    /\ Pool.left # {}
    /\ txs' = [txs EXCEPT ![GC].pc = "close", ![GC].err = "ERR"]
    /\ UNCHANGED PoolFrame

\* rows.Next() is false
PoolExhausted ==
    /\ Pool.pc = "next"
    /\ Pool.left = {}
    /\ txs' = [txs EXCEPT ![GC].pc = "close"]
    /\ UNCHANGED PoolFrame

\* ch <- chunk meets the receive of a worker in for chunk := range ch
PoolSend ==
    /\ Pool.pc = "send"
    /\ \E k \in DOMAIN Pool.w :
        /\ Pool.w[k] = "recv"
        /\ txs' = [txs EXCEPT ![GC].pc = "next", ![GC].chunk = <<>>,
                              ![GC].w[k] = "removing",
                              ![GC].got[k] = Pool.chunk]
    /\ UNCHANGED PoolFrame

\* st.Remove(chunk) of a worker returns
PoolRemove ==
    /\ Pool.pc # "idle"
    /\ \E k \in DOMAIN Pool.w :
        /\ Pool.w[k] = "removing"
        /\ removed' = removed \cup {Pool.got[k]}
        /\ txs' = [txs EXCEPT ![GC].w[k] = "recv", ![GC].got[k] = <<>>]
    /\ UNCHANGED <<inodes, entries, chunks, xattr, stats, nextInode,
                   nextChunk, now, db0, last>>

\* close(ch)
PoolClose ==
    /\ Pool.pc = "close"
    /\ txs' = [txs EXCEPT ![GC].pc = "wait", ![GC].closed = TRUE]
    /\ UNCHANGED PoolFrame

\* the range over the closed channel ends: wg.Done()
PoolExit ==
    /\ Pool.pc # "idle"
    /\ Pool.closed
    /\ \E k \in DOMAIN Pool.w :
        /\ Pool.w[k] = "recv"
        /\ txs' = [txs EXCEPT ![GC].w[k] = "done"]
    /\ UNCHANGED PoolFrame

\* wg.Wait() returns; after a failed Scan the error is returned, else the
\* DELETE and the COMMIT follow
PoolWait ==
    /\ Pool.pc = "wait"
    /\ \A k \in DOMAIN Pool.w : Pool.w[k] = "done"
    /\ LET gone == IF Pool.err = "OK" THEN Expired(chunks, Pool.threshold)
                   ELSE {}
       IN /\ chunks' = chunks \ gone
          /\ last' = IF gone = {} THEN last ELSE "CleanOrphanChunks"
    /\ txs' = [txs EXCEPT ![GC].pc = "returned"]
    /\ UNCHANGED <<inodes, entries, xattr, stats, nextInode, nextChunk,
                   now, removed, db0>>

\* the caller goes on
PoolReturn ==
    /\ Pool.pc = "returned"
    /\ txs' = [txs EXCEPT ![GC] = [pc |-> "idle"]]
    /\ UNCHANGED PoolFrame

\* the file is overwritten from its start by a one-byte blob
Overwrite ==
    /\ nextChunk <= MaxChunkId
    /\ \E inode \in Files, key \in Keys :
        AddChunkCall(inode, FALSE, [storage |-> "s3", key |-> key,
                                    objectoffset |-> 0, inodeoffset |-> 0,
                                    size |-> 1])

PoolStep ==
    \/ PoolScan
    \/ PoolScanError
    \/ PoolExhausted
    \/ PoolSend
    \/ PoolRemove
    \/ PoolClose
    \/ PoolExit
    \/ PoolWait

NextPool ==
    \/ PoolBegin
    \/ PoolStep
    \/ PoolReturn
    \/ Overwrite

SpecPool == InitChunk /\ [][NextPool]_vars

\* every goroutine that can run does run: the caller and each worker
SpecPoolFair ==
    /\ SpecPool
    /\ WF_vars(PoolScan \/ PoolExhausted \/ PoolSend \/ PoolClose \/ PoolWait)
    /\ WF_vars(PoolRemove)
    /\ WF_vars(PoolExit)

\* ================================================================ properties
\* the live chunks of an inode: the rows whose inode field is its id
Live(cs, id) == {c \in cs : c.inode = id}

Orphans(cs) == {c \in cs : c.inode = NULL}

End(c) == c.inodeoffset + c.size

\* the byte positions [inode_offset, inode_offset+size) of a live chunk
Bytes(c) == c.inodeoffset .. (End(c) - 1)

Disjoint(c, d) == Bytes(c) \cap Bytes(d) = {}

NonOverlapping(cs, id) ==
    \A c, d \in Live(cs, id) : c # d => Disjoint(c, d)

\* C1 Non-overlap: after every committed Create, AddChunk, Touch, Unlink,
\* Forget and CleanOrphanInodes, run one at a time, any two distinct live
\* chunks of an inode cover disjoint intervals [inode_offset, inode_offset+size).
C1_NonOverlap == \A id \in InodeIds : NonOverlapping(chunks, id)

\* a write has trimmed a chunk of a file that holds two live chunks or more
C1_Witness ==
    /\ last = "AddChunk"
    /\ \E c, d \in chunks :
        /\ c.inode \in Files /\ d.inode = c.inode /\ c # d
        /\ c.objectoffset > 0

\* C2 Containment: after every committed AddChunk and Touch on an inode,
\* every live chunk of the inode ends at or before the inode's size.
C2_Containment ==
    \A c \in chunks : c.inode # NULL => End(c) <= inodes[c.inode].size

\* a write beyond the end of the file has grown it: a zero chunk fills the
\* gap and the written chunk ends at the inode's size
C2_Witness ==
    /\ last = "AddChunk"
    /\ \E z, c \in chunks :
        /\ z.inode \in Files /\ c.inode = z.inode
        /\ z.storage = "zero" /\ c.storage = "s3"
        /\ End(z) = c.inodeoffset /\ End(c) = inodes[c.inode].size

\* C5 Orphan closure: a chunk row has a NULL inode exactly when its
\* orphandate is set, after any AddChunk, Touch, Forget, CleanOrphanInodes
\* and CleanOrphanChunks; an inserted row has no orphandate.
C5_OrphanClosure ==
    \A c \in chunks : (c.inode = NULL) <=> (c.orphandate # NULL)

\* the file was forgotten with chunks, and a collection has left orphans
C5_Witness ==
    /\ last = "Forget"
    /\ Orphans(chunks) # {}
    /\ removed # {}

\* C3 Stats accuracy: after Setup and after every committed Create (new
\* inode or hard link), Unlink, Rename, Forget, Touch, AddChunk and
\* CleanOrphanInodes, stats.inodes is the number of inode rows and
\* stats.size the sum of their sizes.
C3_StatsAccuracy ==
    /\ stats.inodes = Cardinality(DOMAIN inodes)
    /\ stats.size = SumSizes(inodes)

\* an inode that held a stored byte was forgotten
C3_Witness ==
    /\ last = "Forget"
    /\ Files \cap DOMAIN inodes = {}
    /\ \E c \in Orphans(chunks) : c.storage = "s3"

\* the number of entries whose inode field is id
Links(es, id) == Cardinality({e \in es : e.inode = id})

\* C4 Refcount accuracy, as claimed: after Setup and every committed Create,
\* Unlink and Rename, every inode row, the root included, has refcount equal
\* to the number of entries whose inode field is its id.
C4_RefcountAsClaimed ==
    \A id \in DOMAIN inodes : inodes[id].refcount = Links(entries, id)

\* C4 Refcount accuracy, amended: every inode row other than the root has
\* refcount equal to the number of entries whose inode field is its id, and
\* the root, which Setup inserts with refcount 1 and no entry, has one more.
C4_RefcountAccuracy ==
    \A id \in DOMAIN inodes :
        inodes[id].refcount = Links(entries, id) + (IF id = RootID THEN 1 ELSE 0)

\* a rename over an existing entry has left its inode without a link, while
\* another inode has two
C4_Witness ==
    /\ last = "Rename"
    /\ \E id \in DOMAIN inodes : inodes[id].refcount = 0
    /\ \E id \in DOMAIN inodes \ {RootID} : inodes[id].refcount = 2

\* the content of byte p of an inode: the blob byte behind the one live chunk
\* that covers p, zero for a zero chunk
ZeroContent == <<"zero", "", 0>>
NoContent   == <<"none", "", 0>>
Ambiguous   == <<"many", "", 0>>

Covering(cs, id, p) == {c \in Live(cs, id) : c.inodeoffset <= p /\ p < End(c)}

Content(cs, id, p) ==
    LET cov == Covering(cs, id, p)
    IN IF cov = {} THEN NoContent
       ELSE IF Cardinality(cov) > 1 THEN Ambiguous
       ELSE LET c == CHOOSE c \in cov : TRUE
            IN IF c.storage = "zero" THEN ZeroContent
               ELSE <<c.storage, c.key, c.objectoffset + (p - c.inodeoffset)>>

\* the chunks after of an inode of size s read as the chunks before with
\* the interval [off, off+len) replaced by the chunk and the gap zeroed
Spliced(before, after, id, s, chunk, off, len) ==
    \A p \in 0 .. (Max(s, off + len) - 1) :
        Content(after, id, p) =
          IF off <= p /\ p < off + len
          THEN <<chunk.storage, chunk.key, chunk.objectoffset + (p - off)>>
          ELSE IF p < s THEN Content(before, id, p)
          ELSE ZeroContent

\* C6 Splice-write content: on an inode of size s whose live chunks do not
\* overlap, a committed AddChunk of W = [off, off+len), len > 0, leaves every
\* byte of W with the content of the new chunk, every byte of [0, s) outside
\* W with the content it had, and every byte of [s, off) zero.
C6_SpliceContent ==
    \A inode \in Files \cap DOMAIN inodes :
        NonOverlapping(chunks, inode) =>
          \A append \in BOOLEAN, chunk \in ChunkArgs(Keys) :
            LET i == getInode(DB, inode)
                r == AddChunkTx(DB, i, inode, append, chunk, now)
            IN (append => chunk.inodeoffset = 0) =>  \* O_APPEND drops the offset
                 /\ r.err = "OK"
                 /\ Spliced(chunks, r.db.chunks, inode, i.size, chunk,
                            IF append THEN i.size ELSE chunk.inodeoffset,
                            chunk.size)

\* a write into the middle of a stored chunk has split it: the two pieces
\* share the blob, the right one reads it further on
C6_Witness ==
    /\ last = "AddChunk"
    /\ \E c, d, w \in chunks :
        /\ c.inode \in Files /\ d.inode = c.inode /\ w.inode = c.inode
        /\ c.storage = "s3" /\ d.storage = "s3" /\ c.key = d.key /\ w.key # c.key
        /\ End(c) = w.inodeoffset /\ End(w) = d.inodeoffset
        /\ d.objectoffset = c.objectoffset + (d.inodeoffset - c.inodeoffset)

\* what C7 compares of a store: the chunks of the file, live and orphaned,
\* without their ids, the inode's size and stats.size
FileView(db, id) ==
    [chunks |-> {[inode |-> c.inode, storage |-> c.storage, key |-> c.key,
                  objectoffset |-> c.objectoffset,
                  inodeoffset |-> c.inodeoffset, size |-> c.size] :
                 c \in db.chunks},
     size   |-> db.inodes[id].size,
     stats  |-> db.stats.size]

\* the store after the call of a and then the call of b, one transaction at
\* a time, from the store in which the first of the two began
Serial(a, b) ==
    LET ra == RunTx(db0, getInode(db0, txs[a].i.id), txs[a].call, TxKey(a))
        rb == RunTx(ra.db, getInode(ra.db, txs[b].i.id), txs[b].call, TxKey(b))
    IN rb.db

\* C7 Linearizability of same-inode operations: once two AddChunk and/or
\* Touch(size) transactions issued concurrently on one inode have both
\* committed, the chunks of the inode, its size and stats.size are those of
\* running the two one after the other in some order.
C7_Linearizable ==
    (\A t \in Tx : txs[t].pc = "done") =>
        FileView(DB, txs[1].i.id) \in
            {FileView(Serial(1, 2), txs[1].i.id),
             FileView(Serial(2, 1), txs[1].i.id)}

\* C8 Truncate: after a committed Touch to a size s below the inode's size,
\* no live chunk of the inode ends after s; a chunk that started at or after
\* s is orphaned; a chunk straddling s keeps its offsets and has size
\* s - inode_offset; a chunk ending at or before s is unchanged; the inode's
\* size is s and stats.size has decreased by the old size minus s.
C8_Truncate ==
    \A id \in Files \cap DOMAIN inodes, s \in Sizes :
        s < inodes[id].size =>
          LET r == TouchTx(DB, getInode(DB, id), s, NilMode, now)
          IN /\ r.err = "OK"
             /\ \A c \in Live(r.db.chunks, id) : End(c) <= s
             /\ \A c \in Live(chunks, id) :
                  IF c.inodeoffset >= s
                  THEN \E d \in r.db.chunks : d.id = c.id /\ d.inode = NULL
                  ELSE IF End(c) > s
                  THEN [c EXCEPT !.size = s - c.inodeoffset] \in r.db.chunks
                  ELSE c \in r.db.chunks
             /\ r.db.inodes[id].size = s
             /\ r.db.stats.size = stats.size - (inodes[id].size - s)

\* a resize has cut a stored chunk, which now ends at the inode's size, and
\* orphaned another
C8_Witness ==
    /\ last = "Touch"
    /\ Orphans(chunks) # {}
    /\ \E c \in chunks :
        c.inode \in Files /\ c.storage = "s3" /\ End(c) = inodes[c.inode].size

\* C9 Forget is conditional on refcount: on an inode with refcount 0 it
\* orphans every live chunk of the inode, deletes its xattrs and its row and
\* takes 1 and the inode's size off the stats; on an inode with refcount > 0
\* it changes nothing.
C9_Forget ==
    \A id \in DOMAIN inodes :
        LET r == ForgetTx(DB, id, now)
        IN IF inodes[id].refcount = 0
           THEN /\ r.err = "OK"
                /\ id \notin DOMAIN r.db.inodes
                /\ \A c \in Live(chunks, id) :
                     \E d \in r.db.chunks :
                        d.id = c.id /\ d.inode = NULL /\ d.orphandate # NULL
                /\ \A x \in r.db.xattr : x.inode # id
                /\ r.db.stats = [inodes |-> stats.inodes - 1,
                                 size   |-> stats.size - inodes[id].size]
           ELSE r = Ok(DB)

\* C10 Unlink: an entry whose inode is the parent of an entry is refused
\* with ENOTEMPTY and nothing changes; any other entry is removed, its
\* inode's refcount drops by 1 and the inode row stays, even at refcount 0.
C10_Unlink ==
    \A e \in entries :
        LET r == UnlinkTx(DB, e.parent, e.name)
        IN IF \E ce \in entries : ce.parent = e.inode
           THEN r = Fail(DB, "ENOTEMPTY")
           ELSE /\ r.err = "OK"
                /\ r.db.entries = entries \ {e}
                /\ DOMAIN r.db.inodes = DOMAIN inodes
                /\ \A j \in DOMAIN inodes :
                     r.db.inodes[j] =
                       IF j = e.inode
                       THEN [inodes[j] EXCEPT !.refcount = @ - 1]
                       ELSE inodes[j]
                /\ r.db.chunks = chunks /\ r.db.xattr = xattr
                /\ r.db.stats = stats

\* an unlink has left an inode without a link while some entry names a
\* directory that is not empty
C10_Witness ==
    /\ last = "Unlink"
    /\ \E id \in DOMAIN inodes : inodes[id].refcount = 0
    /\ \E e, ce \in entries : ce.parent = e.inode

\* the entries with this key (PRIMARY KEY (parent, name): at most one)
At(es, parent, name) == {e \in es : e.parent = parent /\ e.name = name}

\* the inode rows with the refcount of the inode id one lower
Unreferenced(inds, id) ==
    [j \in DOMAIN inds |->
       IF j = id THEN [inds[j] EXCEPT !.refcount = @ - 1] ELSE inds[j]]

\* C11 Rename over an existing destination, as claimed: a committed Rename of
\* an entry to I onto an entry to J, J without children, leaves one entry at
\* the destination, to I, none at the source, J's refcount one lower with
\* its row present and I's refcount unchanged; without a destination the
\* source entry is relocated.
C11_RenameAsClaimed ==
    \A e \in entries, newParent \in InodeIds, newName \in Names :
        LET r   == RenameTx(DB, e.parent, e.name, newParent, newName)
            dst == At(entries, newParent, newName)
            to  == [e EXCEPT !.parent = newParent, !.name = newName]
        IN r.err = "OK" =>
             /\ r.db.entries = (entries \ ({e} \cup dst)) \cup {to}
             /\ DOMAIN r.db.inodes = DOMAIN inodes
             /\ r.db.inodes[e.inode].refcount = inodes[e.inode].refcount
             /\ \A d \in dst :
                  r.db.inodes[d.inode].refcount = inodes[d.inode].refcount - 1
             /\ dst = {} => r.db.inodes = inodes

\* C11 Rename over an existing destination, amended: as claimed when I and J
\* are different inodes; when both entries are links to one inode, that
\* inode's refcount is one lower; no other inode row changes.
C11_Rename ==
    \A e \in entries, newParent \in InodeIds, newName \in Names :
        LET r   == RenameTx(DB, e.parent, e.name, newParent, newName)
            dst == At(entries, newParent, newName)
            to  == [e EXCEPT !.parent = newParent, !.name = newName]
        IN r.err = "OK" =>
             /\ r.db.entries = (entries \ ({e} \cup dst)) \cup {to}
             /\ \A d \in dst : r.db.inodes = Unreferenced(inodes, d.inode)
             /\ dst = {} => r.db.inodes = inodes

\* a rename has replaced an entry: its inode is left without a link, and
\* the entry that remains is the renamed one
C11_Witness ==
    /\ last = "Rename"
    /\ \E id \in DOMAIN inodes : inodes[id].refcount = 0
    /\ \E e \in entries : e.name = "b" /\ inodes[e.inode].refcount = 1

\* C12 Rename onto a non-empty directory: when the destination entry exists
\* and its inode is the parent of an entry, Rename of another, existing entry
\* onto it returns ENOTEMPTY.
C12_RenameNotEmpty ==
    \A e, d \in entries :
        (e # d /\ \E ce \in entries : ce.parent = d.inode) =>
            RenameTx(DB, e.parent, e.name, d.parent, d.name).err = "ENOTEMPTY"

\* C13 Rename failure is atomic: whenever Rename returns an error the
\* entries and every inode's refcount are as before the call, an existing
\* destination entry included; Rename returns ENOENT when the source entry
\* does not exist.
C13_RenameAtomic ==
    \A oldParent \in InodeIds, oldName \in Names,
       newParent \in InodeIds, newName \in Names :
        LET r == RenameTx(DB, oldParent, oldName, newParent, newName)
        IN /\ r.err # "OK" =>
                /\ r.db.entries = entries
                /\ DOMAIN r.db.inodes = DOMAIN inodes
                /\ \A j \in DOMAIN inodes :
                     r.db.inodes[j].refcount = inodes[j].refcount
           /\ At(entries, oldParent, oldName) = {} => r.err = "ENOENT"

\* a rename of a missing source onto an entry that the preliminary unlink
\* removes: the failure comes after the destination was unlinked
C13_Witness ==
    \E d \in entries, oldParent \in InodeIds, oldName \in Names :
        /\ At(entries, oldParent, oldName) = {}
        /\ unlink(DB, d.parent, d.name).err = "OK"
        /\ unlink(DB, d.parent, d.name).db.entries # entries
        /\ RenameTx(DB, oldParent, oldName, d.parent, d.name).err = "ENOENT"

\* C14 SetXattr flags, on an existing inode: with flags 1 it inserts the
\* key when absent and fails, leaving the xattrs as they were, when present;
\* with flags 2 it returns ENODATA, leaving the xattrs as they were, when the
\* key is absent and otherwise succeeds, whatever value was stored; with any
\* other flags it succeeds; after a success GetXattr returns the value set.
C14_SetXattrFlags ==
    \A inode \in DOMAIN inodes, attr \in Attrs, value \in Values,
       flags \in XattrFlags :
        LET r   == SetXattrTx(DB, inode, attr, value, flags)
            has == GetXattr(DB, inode, attr) # "ENODATA"
        IN /\ flags = 1 =>
                IF has THEN r.err # "OK" /\ r.db.xattr = xattr
                ELSE r.err = "OK"
           /\ flags = 2 =>
                IF has THEN r.err = "OK"
                ELSE r.err = "ENODATA" /\ r.db.xattr = xattr
           /\ flags \notin {1, 2} => r.err = "OK"
           /\ r.err = "OK" => GetXattr(r.db, inode, attr) = value

\* C15 Orphan-chunk GC removes before it deletes: every chunk row the DELETE
\* of CleanOrphanChunks removes was selected and handed to Remove by a
\* worker that finished before the DELETE, whatever other transactions
\* orphan between the SELECT and the DELETE.
C15_RemoveBeforeDelete ==
    txs[GC].pc = "deleted" =>
        \A c \in txs[GC].deleted :
            /\ c \in txs[GC].sent
            /\ <<c.storage, c.key>> \in removed

\* C16 Entry invariant: in every reachable state the parent and the inode of
\* every directory entry are existing inode rows and the parent's mode is a
\* directory.
C16_EntryInvariant ==
    \A e \in entries :
        /\ e.parent \in DOMAIN inodes
        /\ e.inode \in DOMAIN inodes
        /\ inodes[e.parent].mode = "dir"

\* C17 Positive chunk size: in every reachable state every live chunk has
\* size > 0, after AddChunk calls of any size >= 0 at any offset and Touch
\* calls of any size.
C17_PositiveSize ==
    \A c \in chunks : c.inode # NULL => c.size > 0

Ids(cs) == {c.id : c \in cs}

\* C18 Split case of AddChunk: when a live chunk C = [a, b) strictly
\* contains the written interval W = [off, off+len), after the commit three
\* live chunks lie over [a, b): the row with C's id covering [a, off) with
\* its object offset unchanged, the new chunk covering W, and a new row
\* covering [off+len, b) with C's storage and key and object offset
\* C.objectoffset + (off+len - a); C is not orphaned and the inode size is
\* unchanged.
C18_Split ==
    \A id \in Files \cap DOMAIN inodes, chunk \in ChunkArgs(Keys) :
      \A c \in Live(chunks, id) :
        LET off  == chunk.inodeoffset
            len  == chunk.size
            r    == AddChunkTx(DB, getInode(DB, id), id, FALSE, chunk, now)
            over == {d \in Live(r.db.chunks, id) :
                       d.inodeoffset < End(c) /\ End(d) > c.inodeoffset}
        IN (c.inodeoffset < off /\ off + len < End(c)) =>
             /\ r.err = "OK"
             /\ Cardinality(over) = 3
             /\ [c EXCEPT !.size = off - c.inodeoffset] \in over
             /\ \E w \in over :
                  /\ w.id \notin Ids(chunks)
                  /\ w.storage = chunk.storage /\ w.key = chunk.key
                  /\ w.objectoffset = chunk.objectoffset
                  /\ w.inodeoffset = off /\ w.size = len
             /\ \E n \in over :
                  /\ n.id \notin Ids(chunks)
                  /\ n.storage = c.storage /\ n.key = c.key
                  /\ n.objectoffset = c.objectoffset + (off + len - c.inodeoffset)
                  /\ n.inodeoffset = off + len /\ n.size = End(c) - (off + len)
             /\ r.db.inodes[id].size = inodes[id].size

\* a write has split a chunk: three live chunks, none orphaned, the newest
\* reads the blob of the oldest further on
C18_Witness ==
    /\ last = "AddChunk"
    /\ Orphans(chunks) = {}
    /\ \E c, n \in chunks :
        /\ c.inode \in Files /\ n.inode = c.inode /\ c.id < n.id
        /\ Cardinality(Live(chunks, c.inode)) = 3
        /\ c.inodeoffset = 0 /\ End(n) = inodes[c.inode].size
        /\ n.key = c.key /\ n.objectoffset = n.inodeoffset - c.inodeoffset

\* C19 Displaced chunks are orphaned, never deleted: an AddChunk orphans
\* (inode NULL, orphandate set, offsets and size cleared, storage and key
\* kept) the live chunks of the inode that W covers fully and no other
\* chunk; no AddChunk, Touch, Forget or CleanOrphanInodes deletes a chunk
\* row.
C19_Displaced ==
    /\ \A id \in Files \cap DOMAIN inodes, append \in BOOLEAN,
          chunk \in ChunkArgs(Keys) :
         LET i   == getInode(DB, id)
             r   == AddChunkTx(DB, i, id, append, chunk, now)
             off == IF append THEN i.size ELSE chunk.inodeoffset
             len == chunk.size
             covered == {c \in Live(chunks, id) :
                           off <= c.inodeoffset /\ End(c) <= off + len}
         IN (append => chunk.inodeoffset = 0) =>
              /\ \A c \in covered :
                   [id |-> c.id, inode |-> NULL, storage |-> c.storage,
                    key |-> c.key, objectoffset |-> NULL, inodeoffset |-> NULL,
                    size |-> NULL, orphandate |-> now] \in r.db.chunks
              /\ \A c \in chunks \ covered :
                   \E d \in r.db.chunks :
                      /\ d.id = c.id /\ d.inode = c.inode
                      /\ d.orphandate = c.orphandate
              /\ \A d \in r.db.chunks : d.id \notin Ids(chunks) => d.inode = id
    /\ \A id \in DOMAIN inodes :
         /\ \A size \in Sizes :
              Ids(chunks) \subseteq
                Ids(TouchTx(DB, getInode(DB, id), size, NilMode, now).db.chunks)
         /\ Ids(chunks) \subseteq Ids(ForgetTx(DB, id, now).db.chunks)
    /\ Ids(chunks) \subseteq Ids(CleanOrphanInodesTx(DB, now).db.chunks)

\* an overwrite has orphaned the chunk it covered: one live chunk, one
\* orphan with its blob not yet collected
C19_Witness ==
    /\ last = "AddChunk"
    /\ removed = {}
    /\ \E c, o \in chunks :
        /\ c.inode \in Files /\ Live(chunks, c.inode) = {c}
        /\ o.inode = NULL /\ o.storage = "s3" /\ o.orphandate # NULL
        /\ o.id < c.id

\* C20 Invariants survive concurrent sparse writes: when two AddChunk
\* transactions on one inode, both beyond its size, have both read the size
\* before either commits, then after both have committed the live chunks of
\* the inode are pairwise disjoint and stats.size is the sum of the inode
\* sizes.
C20_SparseWrites ==
    (/\ \A t \in Tx : txs[t].pc = "done"
     /\ txs[1].i.size = txs[2].i.size) =>
        /\ NonOverlapping(chunks, txs[1].i.id)
        /\ stats.size = SumSizes(inodes)

\* the live chunks of the inode id tile [0, size): each has a positive size
\* and lies below size, and each byte below size is under exactly one
Tiled(cs, id, size) ==
    /\ \A c \in Live(cs, id) : c.inodeoffset >= 0 /\ c.size > 0 /\ End(c) <= size
    /\ \A p \in 0 .. size - 1 : Cardinality(Covering(cs, id, p)) = 1

\* a live zero chunk of the inode id over [from, to)
ZeroFilled(cs, id, from, to) ==
    \E c \in Live(cs, id) :
      /\ c.storage = "zero" /\ c.key = "" /\ c.objectoffset = 0
      /\ c.inodeoffset = from /\ End(c) = to

\* C21: after every committed operation of a sequence of Create, AddChunk
\* of a positive size at any offset and Touch to any size, one transaction
\* at a time, the live chunks of an inode tile [0, inode.size): every byte
\* below the size is under exactly one live chunk and no live chunk reaches
\* beyond it; a write at an offset beyond the size and a Touch to a larger
\* size leave a live chunk with storage 'zero', an empty key and object
\* offset 0 over the gap [old size, offset) or [old size, new size).
C21_GapFree ==
    /\ \A id \in DOMAIN inodes : Tiled(chunks, id, inodes[id].size)
    /\ \A id \in Files \cap DOMAIN inodes :
         LET i == getInode(DB, id)
         IN /\ \A chunk \in ChunkArgs({"a"}) :
                 LET r == AddChunkTx(DB, i, id, FALSE, chunk, now)
                 IN i.size < chunk.inodeoffset =>
                      /\ r.err = "OK"
                      /\ ZeroFilled(r.db.chunks, id, i.size, chunk.inodeoffset)
                      /\ Tiled(r.db.chunks, id, r.db.inodes[id].size)
            /\ \A size \in Sizes :
                 LET r == TouchTx(DB, i, size, NilMode, now)
                 IN i.size < size =>
                      /\ r.err = "OK"
                      /\ ZeroFilled(r.db.chunks, id, i.size, size)
                      /\ Tiled(r.db.chunks, id, size)

\* a write beyond the end of a file has committed: a zero chunk from the
\* start of the file is followed at once by the blob chunk that ends the file
C21_Witness ==
    /\ last = "AddChunk"
    /\ \E id \in Files \cap DOMAIN inodes :
        \E z, c \in Live(chunks, id) :
          /\ z.storage = "zero" /\ z.inodeoffset = 0
          /\ c.storage = "s3" /\ c.inodeoffset = End(z)
          /\ End(c) = inodes[id].size
          /\ c.id = z.id + 1

\* C22: after any sequence of AddChunk and Touch followed by
\* CleanOrphanChunks with any threshold, Remove has not been called with
\* the (storage, key) of a live chunk of an inode, storage 'zero' aside; in
\* particular not with the blob of a split chunk of which one piece was
\* orphaned and the other is live.
C22_NoLiveBlobRemoved ==
    \A c \in chunks :
        (c.inode # NULL /\ c.storage # "zero") =>
            <<c.storage, c.key>> \notin removed

\* CleanOrphanChunks has returned with the channel closed and every worker
\* goroutine gone
PoolDone ==
    /\ Pool.pc = "returned"
    /\ Pool.closed
    /\ \A k \in DOMAIN Pool.w : Pool.w[k] = "done"

\* C23 as claimed, the part a finite run settles: CleanOrphanChunks returns
\* with the channel closed and every worker exited, and with workers = 0 it
\* returns only when no chunk is eligible.
C23_PoolAsClaimed ==
    Pool.pc = "returned" =>
        /\ PoolDone
        /\ Pool.workers = 0 => Pool.rows = {}

\* C23 Termination of the worker pool: st.Remove returning, a call of
\* CleanOrphanChunks with workers >= 1 always returns, for any number of
\* eligible chunks, after the exhausted scan and after a failed Scan, with
\* the channel closed and every worker goroutine exited; with workers = 0
\* it returns only when no chunk is eligible or the Scan of the first row
\* fails, and once a row is scanned the caller stays blocked on its send
\* for ever.
C23_PoolTerminates ==
    /\ [](Pool.pc = "returned" =>
            /\ PoolDone
            /\ Pool.workers = 0 =>
                 \/ Pool.rows = {}
                 \/ Pool.err = "ERR" /\ Pool.left = Pool.rows)
    /\ [][(Pool.pc = "send" /\ Pool.workers = 0) => txs' = txs]_vars
    /\ (Pool.pc # "idle" /\ Pool.workers >= 1) ~> PoolDone

\* a collection by two workers of two eligible chunks has returned without
\* an error: both blobs went to Remove and both rows are deleted
C23_Witness ==
    /\ PoolDone
    /\ Pool.workers = 2
    /\ Pool.err = "OK"
    /\ Cardinality(Pool.rows) = 2
    /\ Pool.left = {}
    /\ {<<c.storage, c.key>> : c \in Pool.rows} \subseteq removed
    /\ Pool.rows \cap chunks = {}

====
